---- MODULE Spec2Model ----
(***************************************************************************)
(* Model of UniversitySystem (src/UniversitySystem.js): a JSON document of *)
(* departments, professors and students with add / update / delete /       *)
(* search, validation, and a timestamped backup around each mutation.      *)
(***************************************************************************)
EXTENDS FiniteSets, Integers, Sequences, TLC

VARIABLES
    fileExists,   \* the primary document exists on disk
    file,         \* parsed content of the primary document (when it exists)
    dirExists,    \* the backups directory exists
    backups,      \* backup files: timestamp |-> document content
    clock,        \* millisecond timestamp of the latest backup written
    calls,        \* number of add/update/delete/search calls made so far
    okCalls,      \* add/update/delete calls that returned successfully
    dupAdds,      \* add calls rejected for a duplicate id
    overwrites,   \* backups written over a file with the same timestamp
    initDone,     \* initialize() has returned successfully at least once
    last,         \* record of the most recent public call and its outcome
    procs         \* callers whose calls are in flight: position and locals

vars == <<fileExists, file, dirExists, backups, clock, calls, okCalls,
          dupAdds, overwrites, initDone, last, procs>>

----------------------------------------------------------------------------
(* Bounds *)

MaxCalls == 3

\* calls started by the two concurrent callers together
MaxConcCalls == 2

----------------------------------------------------------------------------
(* JavaScript values.  A string is a sequence of characters. *)

Str(s) == [t |-> "string", s |-> s, n |-> 0]
Num(n) == [t |-> "number", s |-> <<>>, n |-> n]
NaN == [t |-> "nan", s |-> <<>>, n |-> 0]
Undefined == [t |-> "undefined", s |-> <<>>, n |-> 0]
Null == [t |-> "null", s |-> <<>>, n |-> 0]

\* typeof v
TypeOf(v) ==
    CASE v.t = "string" -> "string"
      [] v.t = "number" -> "number"
      [] v.t = "nan" -> "number"
      [] v.t = "undefined" -> "undefined"
      [] v.t = "null" -> "object"

\* a === b
StrictEq(a, b) == a.t # "nan" /\ a = b

\* String.prototype.toLowerCase, on the characters the model uses
LowerChar(c) ==
    CASE c = "A" -> "a"
      [] c = "C" -> "c"
      [] c = "S" -> "s"
      [] OTHER -> c

ToLowerCase(s) == [i \in 1..Len(s) |-> LowerChar(s[i])]

\* String.prototype.includes
Includes(s, sub) ==
    \E i \in 0..(Len(s) - Len(sub)) : SubSeq(s, i + 1, i + Len(sub)) = sub

----------------------------------------------------------------------------
(* Schemas *)

Types == {"student", "professor", "department"}

\* a kind the schemas do not have
sCourse == "course"

Required(type) ==
    CASE type = "student" -> <<"id", "name", "email", "enrollmentYear", "major">>
      [] type = "professor" -> <<"id", "name", "email", "department", "specialization">>
      [] type = "department" -> <<"id", "name", "building", "budget">>

\* the schema with the student's major type-checked in place of course
SchemaTypesMajorTyped(type) ==
    CASE type = "student" ->
            <<<<"id", "string">>, <<"name", "string">>, <<"email", "string">>,
              <<"enrollmentYear", "number">>, <<"major", "string">>>>
      [] type = "professor" ->
            <<<<"id", "string">>, <<"name", "string">>, <<"email", "string">>,
              <<"department", "string">>, <<"specialization", "string">>>>
      [] type = "department" ->
            <<<<"id", "string">>, <<"name", "string">>, <<"building", "string">>,
              <<"budget", "number">>>>

SchemaTypes(type) ==
    CASE type = "student" ->
            <<<<"id", "string">>, <<"name", "string">>, <<"email", "string">>,
              <<"enrollmentYear", "number">>, <<"course", "string">>>>
      [] type = "professor" ->
            <<<<"id", "string">>, <<"name", "string">>, <<"email", "string">>,
              <<"department", "string">>, <<"specialization", "string">>>>
      [] type = "department" ->
            <<<<"id", "string">>, <<"name", "string">>, <<"building", "string">>,
              <<"budget", "number">>>>

\* `${type}s`
Table(type) ==
    CASE type = "student" -> "students"
      [] type = "professor" -> "professors"
      [] type = "department" -> "departments"
      [] type = sCourse -> "courses"

----------------------------------------------------------------------------
(* Errors: the original message, and the message a public call re-throws *)

NoCause == [msg |-> "", field |-> "", expected |-> "", type |-> "", id |-> <<>>]
MissingField(f) == [NoCause EXCEPT !.msg = "Missing required field", !.field = f]
InvalidFieldType(f, e) ==
    [NoCause EXCEPT !.msg = "Invalid type for", !.field = f, !.expected = e]
AlreadyExists(type, id) ==
    [NoCause EXCEPT !.msg = "already exists", !.type = type, !.id = id]
NotFound(type, id) ==
    [NoCause EXCEPT !.msg = "not found", !.type = type, !.id = id]
HasProfessors ==
    [NoCause EXCEPT !.msg = "Cannot delete department with assigned professors"]
ReadFailed == [NoCause EXCEPT !.msg = "Failed to read data"]
BackupWriteFailed == [NoCause EXCEPT !.msg = "ENOENT"]
NotAFunction == [NoCause EXCEPT !.msg = "toLowerCase is not a function"]
InvalidType(type) == [NoCause EXCEPT !.msg = "Invalid type", !.type = type]
CannotReadUndefined == [NoCause EXCEPT !.msg = "Cannot read properties of undefined"]
CannotConvertUndefined ==
    [NoCause EXCEPT !.msg = "Cannot convert undefined or null to object"]

NoErr == [prefix |-> "", type |-> "", cause |-> NoCause]
\* a re-throw that loses the original message
WrapDropsCause(prefix, type, cause) == [prefix |-> prefix, type |-> type, cause |-> NoCause]

Wrap(prefix, type, cause) == [prefix |-> prefix, type |-> type, cause |-> cause]

----------------------------------------------------------------------------
(* Validation *)

RECURSIVE FirstMissing(_, _, _)
FirstMissing(req, data, i) ==
    IF i > Len(req) THEN ""
    ELSE IF req[i] \notin DOMAIN data THEN req[i]
    ELSE FirstMissing(req, data, i + 1)

RECURSIVE FirstMistyped(_, _, _)
FirstMistyped(types, data, i) ==
    IF i > Len(types) THEN 0
    ELSE IF types[i][1] \in DOMAIN data /\ TypeOf(data[types[i][1]]) # types[i][2]
         THEN i
    ELSE FirstMistyped(types, data, i + 1)

\* #validateData without its type pass
ValidateDataRequiredOnly(data, type) ==
    LET m == FirstMissing(Required(type), data, 1)
    IN  IF type \notin Types THEN InvalidType(type)
        ELSE IF m # "" THEN MissingField(m) ELSE NoCause

\* the error #validateData throws, or NoCause when it returns true
ValidateData(data, type) ==
    LET m == FirstMissing(Required(type), data, 1)
        j == FirstMistyped(SchemaTypes(type), data, 1)
    IN  IF type \notin Types THEN InvalidType(type)
        ELSE IF m # "" THEN MissingField(m)
        ELSE IF j # 0
             THEN InvalidFieldType(SchemaTypes(type)[j][1], SchemaTypes(type)[j][2])
        ELSE NoCause

----------------------------------------------------------------------------
(* JSON *)

\* JSON.stringify of one value: NaN is written as null
StringifyValue(v) == IF v.t = "nan" THEN Null ELSE v

\* JSON.stringify of a record: properties whose value is undefined are left out
StringifyRecord(r) ==
    [f \in {g \in DOMAIN r : r[g].t # "undefined"} |-> StringifyValue(r[f])]

StringifyTable(tbl) == [k \in DOMAIN tbl |-> StringifyRecord(tbl[k])]

\* JSON.stringify(data, null, 2) of the whole document
JSONStringify(doc) ==
    [departments |-> StringifyTable(doc.departments),
     professors |-> StringifyTable(doc.professors),
     students |-> StringifyTable(doc.students)]

\* JSON.parse: every JSON value is read back as the same JavaScript value
JSONParse(text) == text

EmptyDoc == [departments |-> <<>>, professors |-> <<>>, students |-> <<>>]

----------------------------------------------------------------------------
(* Objects *)

\* property names every parsed object inherits from Object.prototype
\* (one representative; the inherited value is a function, hence truthy)
sConstructor == <<"c", "o", "n", "s", "t", "r", "u", "c", "t", "o", "r">>
PrototypeKeys == {sConstructor}

\* truthiness of tbl[k]: an own record, or an inherited property
Truthy(tbl, k) == k \in DOMAIN tbl \/ k \in PrototypeKeys

\* own enumerable properties of tbl[k], as the object spread copies them
OwnProps(tbl, k) == IF k \in DOMAIN tbl THEN tbl[k] ELSE <<>>

\* item[key]
Get(item, key) == IF key \in DOMAIN item THEN item[key] ELSE Undefined

\* tbl[k] = r
Put(tbl, k, r) == [x \in DOMAIN tbl \cup {k} |-> IF x = k THEN r ELSE tbl[x]]

\* delete tbl[k]
Remove(tbl, k) == [x \in DOMAIN tbl \ {k} |-> tbl[x]]

\* { ...existing, ...updates }
Merge(existing, updates) ==
    [f \in DOMAIN existing \cup DOMAIN updates |->
        IF f \in DOMAIN updates THEN updates[f] ELSE existing[f]]

----------------------------------------------------------------------------
(* The disk, and the private file operations *)

Disk ==
    [fileExists |-> fileExists, file |-> file, dirExists |-> dirExists,
     backups |-> backups, clock |-> clock, overwrites |-> overwrites]

\* timestamp of a backup: the same millisecond as the previous backup, or later
BackupTime(d, sameMs) ==
    IF sameMs /\ DOMAIN d.backups # {} THEN d.clock ELSE d.clock + 1

\* #createBackup: the error it throws (NoCause if none) and the disk afterwards
CreateBackup(d, sameMs) ==
    LET ts == BackupTime(d, sameMs) IN
    IF ~d.fileExists THEN [err |-> ReadFailed, disk |-> d]
    ELSE IF ~d.dirExists THEN [err |-> BackupWriteFailed, disk |-> d]
    ELSE [err |-> NoCause,
          disk |-> [d EXCEPT
              !.backups = [t \in DOMAIN d.backups \cup {ts} |->
                              IF t = ts THEN JSONStringify(JSONParse(d.file))
                              ELSE d.backups[t]],
              !.clock = ts,
              !.overwrites = IF ts \in DOMAIN d.backups THEN @ + 1 ELSE @]]

\* #writeFile
WriteFile(d, data) == [d EXCEPT !.fileExists = TRUE, !.file = JSONStringify(data)]

----------------------------------------------------------------------------
(* The public operations, as functions of the disk and the arguments *)

Fail(d, prefix, type, cause) ==
    [disk |-> d, ok |-> FALSE, err |-> Wrap(prefix, type, cause), ret |-> <<>>]
Done(d, ret) == [disk |-> d, ok |-> TRUE, err |-> NoErr, ret |-> ret]

\* add that rejects a professor whose department is not stored
AddCallChecksDepartment(d, type, data, sameMs) ==
    LET v == ValidateData(data, type)
        b == CreateBackup(d, sameMs)
        universityData == JSONParse(b.disk.file)
        tbl == universityData[Table(type)]
        key == data.id.s
    IN  IF v # NoCause THEN Fail(d, "Failed to add", type, v)
        ELSE IF b.err # NoCause THEN Fail(d, "Failed to add", type, b.err)
        ELSE IF Truthy(tbl, key)
             THEN Fail(b.disk, "Failed to add", type, AlreadyExists(type, key))
        ELSE IF type = "professor"
                /\ ~Truthy(universityData.departments, data.department.s)
             THEN Fail(b.disk, "Failed to add", type,
                       NotFound("department", data.department.s))
        ELSE Done(WriteFile(b.disk,
                     [universityData EXCEPT ![Table(type)] = Put(tbl, key, data)]),
                  <<data>>)

\* add that stores the record without looking for an existing one
AddCallOverwrite(d, type, data, sameMs) ==
    LET v == ValidateData(data, type)
        b == CreateBackup(d, sameMs)
        universityData == JSONParse(b.disk.file)
        tbl == universityData[Table(type)]
        key == data.id.s
    IN  IF v # NoCause THEN Fail(d, "Failed to add", type, v)
        ELSE IF b.err # NoCause THEN Fail(d, "Failed to add", type, b.err)
        ELSE Done(WriteFile(b.disk,
                     [universityData EXCEPT ![Table(type)] = Put(tbl, key, data)]),
                  <<data>>)

\* add that takes its backup only after the duplicate check
AddCallBackupLate(d, type, data, sameMs) ==
    LET v == ValidateData(data, type)
        universityData == JSONParse(d.file)
        tbl == universityData[Table(type)]
        key == data.id.s
        b == CreateBackup(d, sameMs)
    IN  IF v # NoCause THEN Fail(d, "Failed to add", type, v)
        ELSE IF ~d.fileExists THEN Fail(d, "Failed to add", type, ReadFailed)
        ELSE IF Truthy(tbl, key)
             THEN Fail(d, "Failed to add", type, AlreadyExists(type, key))
        ELSE IF b.err # NoCause THEN Fail(d, "Failed to add", type, b.err)
        ELSE Done(WriteFile(b.disk,
                     [universityData EXCEPT ![Table(type)] = Put(tbl, key, data)]),
                  <<data>>)

AddCall(d, type, data, sameMs) ==
    LET v == ValidateData(data, type)
        b == CreateBackup(d, sameMs)
        universityData == JSONParse(b.disk.file)
        tbl == universityData[Table(type)]
        key == data.id.s
    IN  IF v # NoCause THEN Fail(d, "Failed to add", type, v)
        ELSE IF b.err # NoCause THEN Fail(d, "Failed to add", type, b.err)
        ELSE IF Truthy(tbl, key)
             THEN Fail(b.disk, "Failed to add", type, AlreadyExists(type, key))
        ELSE Done(WriteFile(b.disk,
                     [universityData EXCEPT ![Table(type)] = Put(tbl, key, data)]),
                  <<data>>)

\* update that takes its backup after writing the document
UpdateCallBackupAfter(d, type, id, updates, sameMs) ==
    LET universityData == JSONParse(d.file)
        tbl == universityData[Table(type)]
        updated == Merge(OwnProps(tbl, id), updates)
        v == ValidateData(updated, type)
        w == WriteFile(d, [universityData EXCEPT ![Table(type)] = Put(tbl, id, updated)])
        b == CreateBackup(w, sameMs)
    IN  IF ~d.fileExists THEN Fail(d, "Failed to update", type, ReadFailed)
        ELSE IF Table(type) \notin DOMAIN universityData
             THEN Fail(d, "Failed to update", type, CannotReadUndefined)
        ELSE IF ~Truthy(tbl, id)
             THEN Fail(d, "Failed to update", type, NotFound(type, id))
        ELSE IF v # NoCause THEN Fail(d, "Failed to update", type, v)
        ELSE IF b.err # NoCause THEN Fail(w, "Failed to update", type, b.err)
        ELSE Done(b.disk, <<updated>>)

UpdateCall(d, type, id, updates, sameMs) ==
    LET universityData == JSONParse(d.file)
        tbl == universityData[Table(type)]
        updated == Merge(OwnProps(tbl, id), updates)
        v == ValidateData(updated, type)
        b == CreateBackup(d, sameMs)
    IN  IF ~d.fileExists THEN Fail(d, "Failed to update", type, ReadFailed)
        ELSE IF Table(type) \notin DOMAIN universityData
             THEN Fail(d, "Failed to update", type, CannotReadUndefined)
        ELSE IF ~Truthy(tbl, id)
             THEN Fail(d, "Failed to update", type, NotFound(type, id))
        ELSE IF v # NoCause THEN Fail(d, "Failed to update", type, v)
        ELSE IF b.err # NoCause THEN Fail(d, "Failed to update", type, b.err)
        ELSE Done(WriteFile(b.disk,
                     [universityData EXCEPT ![Table(type)] = Put(tbl, id, updated)]),
                  <<updated>>)

\* delete that takes its backup before its checks
DeleteCallBackupFirst(d, type, id, sameMs) ==
    LET b == CreateBackup(d, sameMs)
        universityData == JSONParse(d.file)
        tbl == universityData[Table(type)]
        hasProfessors ==
            \E p \in DOMAIN universityData.professors :
                StrictEq(Get(universityData.professors[p], "department"), Str(id))
    IN  IF b.err # NoCause THEN Fail(d, "Failed to delete", type, b.err)
        ELSE IF Table(type) \notin DOMAIN universityData
             THEN Fail(b.disk, "Failed to delete", type, CannotReadUndefined)
        ELSE IF ~Truthy(tbl, id)
             THEN Fail(b.disk, "Failed to delete", type, NotFound(type, id))
        ELSE IF type = "department" /\ hasProfessors
             THEN Fail(b.disk, "Failed to delete", type, HasProfessors)
        ELSE Done(WriteFile(b.disk,
                     [universityData EXCEPT ![Table(type)] = Remove(tbl, id)]),
                  <<>>)

\* delete that writes the document back without removing the record
DeleteCallKeepsRecord(d, type, id, sameMs) ==
    LET universityData == JSONParse(d.file)
        tbl == universityData[Table(type)]
        hasProfessors ==
            \E p \in DOMAIN universityData.professors :
                StrictEq(Get(universityData.professors[p], "department"), Str(id))
        b == CreateBackup(d, sameMs)
    IN  IF ~d.fileExists THEN Fail(d, "Failed to delete", type, ReadFailed)
        ELSE IF Table(type) \notin DOMAIN universityData
             THEN Fail(d, "Failed to delete", type, CannotReadUndefined)
        ELSE IF ~Truthy(tbl, id)
             THEN Fail(d, "Failed to delete", type, NotFound(type, id))
        ELSE IF type = "department" /\ hasProfessors
             THEN Fail(d, "Failed to delete", type, HasProfessors)
        ELSE IF b.err # NoCause THEN Fail(d, "Failed to delete", type, b.err)
        ELSE Done(WriteFile(b.disk, universityData), <<>>)

\* delete without the check for assigned professors
DeleteCallNoDependencyCheck(d, type, id, sameMs) ==
    LET universityData == JSONParse(d.file)
        tbl == universityData[Table(type)]
        b == CreateBackup(d, sameMs)
    IN  IF ~d.fileExists THEN Fail(d, "Failed to delete", type, ReadFailed)
        ELSE IF Table(type) \notin DOMAIN universityData
             THEN Fail(d, "Failed to delete", type, CannotReadUndefined)
        ELSE IF ~Truthy(tbl, id)
             THEN Fail(d, "Failed to delete", type, NotFound(type, id))
        ELSE IF b.err # NoCause THEN Fail(d, "Failed to delete", type, b.err)
        ELSE Done(WriteFile(b.disk,
                     [universityData EXCEPT ![Table(type)] = Remove(tbl, id)]),
                  <<>>)

DeleteCall(d, type, id, sameMs) ==
    LET universityData == JSONParse(d.file)
        tbl == universityData[Table(type)]
        hasProfessors ==
            \E p \in DOMAIN universityData.professors :
                StrictEq(Get(universityData.professors[p], "department"), Str(id))
        b == CreateBackup(d, sameMs)
    IN  IF ~d.fileExists THEN Fail(d, "Failed to delete", type, ReadFailed)
        ELSE IF Table(type) \notin DOMAIN universityData
             THEN Fail(d, "Failed to delete", type, CannotReadUndefined)
        ELSE IF ~Truthy(tbl, id)
             THEN Fail(d, "Failed to delete", type, NotFound(type, id))
        ELSE IF type = "department" /\ hasProfessors
             THEN Fail(d, "Failed to delete", type, HasProfessors)
        ELSE IF b.err # NoCause THEN Fail(d, "Failed to delete", type, b.err)
        ELSE Done(WriteFile(b.disk,
                     [universityData EXCEPT ![Table(type)] = Remove(tbl, id)]),
                  <<>>)

\* the callback of `every` over Object.entries(criteria), from entry i on:
\* "true", "false", or "throw" when toLowerCase is called on a non-string
RECURSIVE EveryEntry(_, _, _)
EveryEntry(item, criteria, i) ==
    IF i > Len(criteria) THEN "true"
    ELSE LET key == criteria[i][1]
             value == criteria[i][2]
             field == Get(item, key)
         IN  IF TypeOf(value) = "string"
             THEN IF field.t \in {"undefined", "null"} THEN "false"
                  ELSE IF field.t # "string" THEN "throw"
                  ELSE IF Includes(ToLowerCase(field.s), ToLowerCase(value.s))
                       THEN EveryEntry(item, criteria, i + 1)
                  ELSE "false"
             ELSE IF StrictEq(field, value)
                  THEN EveryEntry(item, criteria, i + 1)
             ELSE "false"

\* search: the matching records, kept under their keys (order abstracted)
SearchCall(d, type, criteria) ==
    LET universityData == JSONParse(d.file)
        tbl == universityData[Table(type)]
        hits == {k \in DOMAIN tbl : EveryEntry(tbl[k], criteria, 1) = "true"}
    IN  IF ~d.fileExists
        THEN [ok |-> FALSE, err |-> Wrap("Search failed", "", ReadFailed), found |-> <<>>]
        ELSE IF Table(type) \notin DOMAIN universityData
             THEN [ok |-> FALSE, err |-> Wrap("Search failed", "", CannotConvertUndefined),
                   found |-> <<>>]
        ELSE IF \E k \in DOMAIN tbl : EveryEntry(tbl[k], criteria, 1) = "throw"
             THEN [ok |-> FALSE, err |-> Wrap("Search failed", "", NotAFunction),
                   found |-> <<>>]
        ELSE [ok |-> TRUE, err |-> NoErr, found |-> [k \in hits |-> tbl[k]]]

----------------------------------------------------------------------------------------------------------------------------------------
(* Arguments the calls are made with *)

sA == <<"a">>
sUpperA == <<"A">>
sCS == <<"C", "S">>
sOne == <<"1">>

\* the kinds the calls are made with
CallTypes == Types \cup {sCourse}

Ids(type) == IF type = "department" THEN {sA, sUpperA, sConstructor} ELSE {sA}

ValidRecord(type, id) ==
    CASE type = "department" ->
            [id |-> Str(id), name |-> Str(sCS), building |-> Str(sA), budget |-> Num(1)]
      [] type = "professor" ->
            [id |-> Str(id), name |-> Str(sCS), email |-> Str(sA),
             department |-> Str(sA), specialization |-> Str(sA)]
      [] type = "student" ->
            [id |-> Str(id), name |-> Str(sCS), email |-> Str(sA),
             enrollmentYear |-> Num(1), major |-> Str(sCS)]
      [] type = sCourse -> [id |-> Str(id), name |-> Str(sCS)]

\* r without property f
Without(r, f) == [g \in DOMAIN r \ {f} |-> r[g]]

\* records that differ from a valid one in one property
Variants(type) ==
    LET r == ValidRecord(type, sA) IN
    CASE type = "department" ->
            {[r EXCEPT !.budget = NaN], [r EXCEPT !.budget = Str(sOne)],
             Without(r, "budget")}
      [] type = "professor" -> {Without(r, "email")}
      [] type = "student" ->
            {[r EXCEPT !.major = Undefined], [r EXCEPT !.major = Num(1)],
             Without(r, "major"), Merge(r, [course |-> Num(1)])}
      [] type = sCourse -> {}

AddInputs(type) == {ValidRecord(type, id) : id \in Ids(type)} \cup Variants(type)

UpdateInputs(type) ==
    CASE type = "department" ->
            {[budget |-> Num(2)], [budget |-> NaN], [id |-> Str(sUpperA)],
             [name |-> Num(1)], [dean |-> Str(sA)]}
      [] type = "professor" -> {[department |-> Str(sUpperA)], [email |-> Num(1)]}
      [] type = "student" -> {[major |-> Undefined], [course |-> Num(1)]}
      [] type = sCourse -> {[name |-> Str(sA)]}

\* Object.entries(criteria)
SearchInputs(type) ==
    CASE type = "department" ->
            {<<>>, <<<<"id", Str(sA)>>>>, <<<<"name", Str(<<"c", "s">>)>>>>,
             <<<<"budget", Num(1)>>>>, <<<<"budget", Str(sOne)>>>>,
             <<<<"name", Str(sCS)>>, <<"budget", Num(2)>>>>}
      [] type = "professor" -> {<<<<"department", Str(sA)>>>>}
      [] type = "student" -> {<<<<"major", Str(sCS)>>>>}
      [] type = sCourse -> {<<>>}

----------------------------------------------------------------------------
(* The state machine *)

NoCall ==
    [op |-> "none", type |-> "", id |-> <<>>, data |-> <<>>, criteria |-> <<>>,
     ok |-> TRUE, err |-> NoErr, ret |-> <<>>, found |-> <<>>,
     beforeExists |-> FALSE, before |-> EmptyDoc, backupsBefore |-> <<>>,
     dirBefore |-> FALSE, initBefore |-> FALSE]

Call(op, type, id, data) ==
    [NoCall EXCEPT !.op = op, !.type = type, !.id = id, !.data = data,
                   !.beforeExists = fileExists, !.before = file,
                   !.backupsBefore = backups, !.dirBefore = dirExists,
                   !.initBefore = initDone]

\* the callers that may have a call in flight at the same time
Procs == {1, 2}

\* a caller with no call in flight and no result
Idle ==
    [pc |-> "idle", op |-> "none", type |-> "", id |-> <<>>, data |-> <<>>,
     sameMs |-> FALSE, ts |-> 0, snap |-> EmptyDoc, doc |-> EmptyDoc,
     ok |-> FALSE, err |-> NoErr, ret |-> <<>>,
     alone |-> TRUE, start |-> <<>>, after |-> <<>>]

Init ==
    /\ fileExists = FALSE
    /\ file = EmptyDoc
    /\ dirExists = FALSE
    /\ backups = <<>>
    /\ clock = 0
    /\ calls = 0
    /\ okCalls = 0
    /\ dupAdds = 0
    /\ overwrites = 0
    /\ initDone = FALSE
    /\ last = NoCall
    /\ procs = [p \in Procs |-> Idle]

\* the disk and the counters after a mutating call with result r
Commit(r, c) ==
    /\ fileExists' = r.disk.fileExists
    /\ file' = r.disk.file
    /\ dirExists' = r.disk.dirExists
    /\ backups' = r.disk.backups
    /\ clock' = r.disk.clock
    /\ overwrites' = r.disk.overwrites
    /\ calls' = calls + 1
    /\ okCalls' = IF r.ok THEN okCalls + 1 ELSE okCalls
    /\ dupAdds' = IF r.err.cause.msg = "already exists" THEN dupAdds + 1 ELSE dupAdds
    /\ last' = [c EXCEPT !.ok = r.ok, !.err = r.err, !.ret = r.ret]
    /\ UNCHANGED <<initDone, procs>>

\* the test harness's setup(): creates an empty document if there is none
Setup ==
    /\ ~fileExists
    /\ fileExists' = TRUE
    /\ file' = JSONStringify(EmptyDoc)
    /\ last' = Call("setup", "", <<>>, <<>>)
    /\ UNCHANGED <<dirExists, backups, clock, calls, okCalls, dupAdds,
                   overwrites, initDone, procs>>

\* initialize that writes the empty document whether or not one exists
InitializeRewrites ==
    /\ fileExists' = TRUE
    /\ file' = JSONStringify(EmptyDoc)
    /\ dirExists' = TRUE
    /\ initDone' = TRUE
    /\ last' = Call("initialize", "", <<>>, <<>>)
    /\ UNCHANGED <<backups, clock, calls, okCalls, dupAdds, overwrites, procs>>

Initialize ==
    /\ IF fileExists
       THEN UNCHANGED <<fileExists, file, dirExists>>
       ELSE /\ fileExists' = TRUE
            /\ file' = JSONStringify(EmptyDoc)
            /\ dirExists' = TRUE
    /\ initDone' = TRUE
    /\ last' = Call("initialize", "", <<>>, <<>>)
    /\ UNCHANGED <<backups, clock, calls, okCalls, dupAdds, overwrites, procs>>

Add ==
    /\ calls < MaxCalls
    /\ \E type \in CallTypes, sameMs \in BOOLEAN :
       \E data \in AddInputs(type) :
          Commit(AddCall(Disk, type, data, sameMs),
                 Call("add", type, <<>>, data))

Update ==
    /\ calls < MaxCalls
    /\ \E type \in CallTypes, sameMs \in BOOLEAN :
       \E id \in Ids(type), updates \in UpdateInputs(type) :
          Commit(UpdateCall(Disk, type, id, updates, sameMs),
                 Call("update", type, id, updates))

Delete ==
    /\ calls < MaxCalls
    /\ \E type \in CallTypes, sameMs \in BOOLEAN :
       \E id \in Ids(type) :
          Commit(DeleteCall(Disk, type, id, sameMs),
                 Call("delete", type, id, <<>>))

Search ==
    /\ calls < MaxCalls
    /\ \E type \in CallTypes :
       \E criteria \in SearchInputs(type) :
          LET r == SearchCall(Disk, type, criteria) IN
          last' = [Call("search", type, <<>>, <<>>) EXCEPT
                      !.criteria = criteria, !.ok = r.ok, !.err = r.err,
                      !.found = r.found]
    /\ calls' = calls + 1
    /\ UNCHANGED <<fileExists, file, dirExists, backups, clock, okCalls,
                   dupAdds, overwrites, initDone, procs>>

Next == Setup \/ Initialize \/ Add \/ Update \/ Delete \/ Search

Spec == Init /\ [][Next]_vars

----------------------------------------------------------------------------
(* Two callers: each call advances from one await to the next *)

\* the kinds the concurrent calls are made with
ConcTypes == {"department", "professor"}

ConcIds(type) == IF type = "department" THEN {sA, sUpperA} ELSE {sA}

ConcAdds(type) ==
    {ValidRecord(type, id) : id \in ConcIds(type)}
    \cup (IF type = "department" THEN {Without(ValidRecord(type, sA), "budget")}
          ELSE {})

ConcUpdates(type) ==
    IF type = "department" THEN {[budget |-> Num(2)], [name |-> Num(1)]}
    ELSE {[department |-> Str(sUpperA)]}

\* the calls a caller may start
ConcCalls ==
    UNION {
        {[op |-> "add", type |-> type, id |-> <<>>, data |-> data] :
            data \in ConcAdds(type)}
        \cup {[op |-> "update", type |-> type, id |-> sA, data |-> updates] :
            updates \in ConcUpdates(type)}
        \cup {[op |-> "delete", type |-> type, id |-> sA, data |-> <<>>]}
        : type \in ConcTypes}

InFlight(p) == procs[p].pc \notin {"idle", "done"}

FailedTo(op) ==
    CASE op = "add" -> "Failed to add"
      [] op = "update" -> "Failed to update"
      [] op = "delete" -> "Failed to delete"

\* the document, the backups and the existence of the document, as a record
Snapshot(fe, f, b) == [fileExists |-> fe, file |-> f, backups |-> b]

\* the call of c throws cause from inside its try block
Thrown(c, cause, snapshot) ==
    [c EXCEPT !.pc = "done", !.ok = FALSE,
              !.err = Wrap(FailedTo(c.op), c.type, cause), !.ret = <<>>,
              !.after = snapshot]

\* a step of p that touches no file
Local(p, c) ==
    /\ procs' = [procs EXCEPT ![p] = c]
    /\ UNCHANGED <<fileExists, file, dirExists, backups, clock, calls, okCalls,
                   dupAdds, overwrites, initDone, last>>

\* the call starts; add validates before its first await
Begin(p) ==
    /\ calls < MaxConcCalls
    /\ ~InFlight(p)
    /\ \E call \in ConcCalls :
          LET c == [Idle EXCEPT !.op = call.op, !.type = call.type,
                                !.id = call.id, !.data = call.data,
                                !.alone = \A q \in Procs \ {p} : ~InFlight(q),
                                !.start = Disk]
              v == ValidateData(call.data, call.type)
          IN  procs' = [q \in Procs |->
                  IF q = p
                  THEN IF call.op = "add" /\ v # NoCause
                       THEN Thrown(c, v, Snapshot(fileExists, file, backups))
                       ELSE [c EXCEPT !.pc = IF call.op = "add" THEN "bkRead"
                                                                ELSE "read"]
                  ELSE IF InFlight(q) THEN [procs[q] EXCEPT !.alone = FALSE]
                  ELSE procs[q]]
    /\ calls' = calls + 1
    /\ UNCHANGED <<fileExists, file, dirExists, backups, clock, okCalls,
                   dupAdds, overwrites, initDone, last>>

\* #createBackup names the backup file and reads the document
BkRead(p) ==
    /\ procs[p].pc = "bkRead"
    /\ IF ~fileExists
       THEN Local(p, Thrown(procs[p], ReadFailed, Snapshot(fileExists, file, backups)))
       ELSE \E sameMs \in BOOLEAN :
               /\ clock' = BackupTime(Disk, sameMs)
               /\ procs' = [procs EXCEPT ![p] =
                      [@ EXCEPT !.pc = "bkWrite", !.sameMs = sameMs, !.ts = clock',
                                !.snap = JSONParse(file)]]
               /\ UNCHANGED <<fileExists, file, dirExists, backups, calls, okCalls,
                              dupAdds, overwrites, initDone, last>>

\* #createBackup writes the backup file
BkWrite(p) ==
    /\ procs[p].pc = "bkWrite"
    /\ IF ~dirExists
       THEN Local(p, Thrown(procs[p], BackupWriteFailed,
                            Snapshot(fileExists, file, backups)))
       ELSE LET ts == procs[p].ts IN
            /\ backups' = [t \in DOMAIN backups \cup {ts} |->
                              IF t = ts THEN JSONStringify(procs[p].snap)
                              ELSE backups[t]]
            /\ overwrites' = IF ts \in DOMAIN backups THEN overwrites + 1
                             ELSE overwrites
            /\ procs' = [procs EXCEPT ![p] =
                   [@ EXCEPT !.pc = IF procs[p].op = "add" THEN "read" ELSE "write"]]
            /\ UNCHANGED <<fileExists, file, dirExists, clock, calls, okCalls,
                           dupAdds, initDone, last>>

\* the code between readFile and the next await, with a table that keeps
\* only the record of this call
ModifyDropsTable(universityData, op, type, id, data) ==
    LET tbl == universityData[Table(type)]
        key == data.id.s
        updated == Merge(OwnProps(tbl, id), data)
        v == ValidateData(updated, type)
        hasProfessors ==
            \E p \in DOMAIN universityData.professors :
                StrictEq(Get(universityData.professors[p], "department"), Str(id))
    IN  CASE op = "add" ->
               IF Truthy(tbl, key)
               THEN [err |-> AlreadyExists(type, key), doc |-> universityData,
                     ret |-> <<>>]
               ELSE [err |-> NoCause,
                     doc |-> [universityData EXCEPT
                                 ![Table(type)] = Put(<<>>, key, data)],
                     ret |-> <<data>>]
          [] op = "update" ->
               IF ~Truthy(tbl, id)
               THEN [err |-> NotFound(type, id), doc |-> universityData, ret |-> <<>>]
               ELSE IF v # NoCause
               THEN [err |-> v, doc |-> universityData, ret |-> <<>>]
               ELSE [err |-> NoCause,
                     doc |-> [universityData EXCEPT
                                 ![Table(type)] = Put(<<>>, id, updated)],
                     ret |-> <<updated>>]
          [] op = "delete" ->
               IF ~Truthy(tbl, id)
               THEN [err |-> NotFound(type, id), doc |-> universityData, ret |-> <<>>]
               ELSE IF type = "department" /\ hasProfessors
               THEN [err |-> HasProfessors, doc |-> universityData, ret |-> <<>>]
               ELSE [err |-> NoCause,
                     doc |-> [universityData EXCEPT
                                 ![Table(type)] = Remove(tbl, id)],
                     ret |-> <<>>]

\* the code between readFile and the next await: the checks of the call and
\* the change it makes to its own copy of the document
Modify(universityData, op, type, id, data) ==
    LET tbl == universityData[Table(type)]
        key == data.id.s
        updated == Merge(OwnProps(tbl, id), data)
        v == ValidateData(updated, type)
        hasProfessors ==
            \E p \in DOMAIN universityData.professors :
                StrictEq(Get(universityData.professors[p], "department"), Str(id))
    IN  CASE op = "add" ->
               IF Truthy(tbl, key)
               THEN [err |-> AlreadyExists(type, key), doc |-> universityData,
                     ret |-> <<>>]
               ELSE [err |-> NoCause,
                     doc |-> [universityData EXCEPT
                                 ![Table(type)] = Put(tbl, key, data)],
                     ret |-> <<data>>]
          [] op = "update" ->
               IF ~Truthy(tbl, id)
               THEN [err |-> NotFound(type, id), doc |-> universityData, ret |-> <<>>]
               ELSE IF v # NoCause
               THEN [err |-> v, doc |-> universityData, ret |-> <<>>]
               ELSE [err |-> NoCause,
                     doc |-> [universityData EXCEPT
                                 ![Table(type)] = Put(tbl, id, updated)],
                     ret |-> <<updated>>]
          [] op = "delete" ->
               IF ~Truthy(tbl, id)
               THEN [err |-> NotFound(type, id), doc |-> universityData, ret |-> <<>>]
               ELSE IF type = "department" /\ hasProfessors
               THEN [err |-> HasProfessors, doc |-> universityData, ret |-> <<>>]
               ELSE [err |-> NoCause,
                     doc |-> [universityData EXCEPT
                                 ![Table(type)] = Remove(tbl, id)],
                     ret |-> <<>>]

\* the call reads the document, checks and changes its copy
ReadStep(p) ==
    /\ procs[p].pc = "read"
    /\ LET c == procs[p]
           m == Modify(JSONParse(file), c.op, c.type, c.id, c.data)
           here == Snapshot(fileExists, file, backups)
       IN  Local(p, IF ~fileExists THEN Thrown(c, ReadFailed, here)
                    ELSE IF m.err # NoCause THEN Thrown(c, m.err, here)
                    ELSE [c EXCEPT !.doc = m.doc, !.ret = m.ret,
                                   !.pc = IF c.op = "add" THEN "write"
                                                          ELSE "bkRead"])

\* the call writes its copy of the document and returns
WriteStep(p) ==
    /\ procs[p].pc = "write"
    /\ fileExists' = TRUE
    /\ file' = JSONStringify(procs[p].doc)
    /\ procs' = [procs EXCEPT ![p] =
           [@ EXCEPT !.pc = "done", !.ok = TRUE, !.err = NoErr,
                     !.after = Snapshot(TRUE, file', backups)]]
    /\ UNCHANGED <<dirExists, backups, clock, calls, okCalls, dupAdds,
                   overwrites, initDone, last>>

\* the harness sets the store up while no call is in flight
ConcSetup == (\A p \in Procs : ~InFlight(p)) /\ Setup

ConcInitialize == (\A p \in Procs : ~InFlight(p)) /\ Initialize

ConcNext ==
    \/ ConcSetup
    \/ ConcInitialize
    \/ \E p \in Procs :
          Begin(p) \/ BkRead(p) \/ BkWrite(p) \/ ReadStep(p) \/ WriteStep(p)

SpecConc == Init /\ [][ConcNext]_vars

----------------------------------------------------------------------------
(* Vocabulary of the properties *)

Mutating == {"add", "update", "delete"}

\* the table the last call addressed, as it was before the call
BeforeTable == last.before[Table(last.type)]

\* the last call named one of the three kinds
KnownKind == last.type \in Types

\* data lacks a required field of the schema
LacksRequired(data, type) ==
    /\ type \in Types
    /\ \E i \in 1..Len(Required(type)) : Required(type)[i] \notin DOMAIN data

\* data has a schema-typed field of another runtime type
HasMistyped(data, type) ==
    /\ type \in Types
    /\ \E i \in 1..Len(SchemaTypes(type)) :
          /\ SchemaTypes(type)[i][1] \in DOMAIN data
          /\ TypeOf(data[SchemaTypes(type)[i][1]]) # SchemaTypes(type)[i][2]

SchemaValid(data, type) == ~LacksRequired(data, type) /\ ~HasMistyped(data, type)

\* the last call was add(K, R) with a schema-valid R on an initialised store
ValidAdd ==
    /\ last.op = "add" /\ KnownKind
    /\ last.beforeExists /\ last.dirBefore
    /\ SchemaValid(last.data, last.type)

\* search(type, {id: id}) on the current document
SearchById(type, id) == SearchCall(Disk, type, <<<<"id", id>>>>)

----------------------------------------------------------------------------
(* C1 *)

\* C1: after add(K,R) of a schema-valid R whose id is not yet a key under K,
\* the add has succeeded and search(K,{id: R.id}) returns exactly one record,
\* equal to R.
C1_AddThenSearchReturnsExactlyR ==
    (ValidAdd /\ last.data.id.s \notin DOMAIN BeforeTable) =>
        /\ last.ok
        /\ LET r == SearchById(last.type, last.data.id) IN
           /\ r.ok
           /\ Cardinality(DOMAIN r.found) = 1
           /\ \A k \in DOMAIN r.found : r.found[k] = last.data

----------------------------------------------------------------------------
(* C2 *)

\* the last call was add(K, R) with R.id already a key under K
DuplicateAdd ==
    /\ last.op = "add" /\ KnownKind
    /\ last.beforeExists
    /\ "id" \in DOMAIN last.data
    /\ last.data.id.t = "string"
    /\ last.data.id.s \in DOMAIN BeforeTable

ConflictOutcome ==
    /\ ~last.ok
    /\ last.err = Wrap("Failed to add", last.type,
                       AlreadyExists(last.type, last.data.id.s))
    /\ fileExists /\ file = last.before

\* C2 as stated: add(K,R) with R.id already a key under K fails with the
\* conflict error and leaves the primary document as it was.
C2_DuplicateAddConflict == DuplicateAdd => ConflictOutcome

\* C2 amended: add(K,R) of a schema-valid R with R.id already a key under K
\* fails with the conflict error and leaves the primary document as it was.
C2_ValidDuplicateAddConflict ==
    (DuplicateAdd /\ SchemaValid(last.data, last.type)) => ConflictOutcome

C2_Witness ==
    /\ DuplicateAdd /\ SchemaValid(last.data, last.type)
    /\ last.err.cause.msg = "already exists"

----------------------------------------------------------------------------
(* C3 *)

\* C3: add(K,R) of an R that lacks a required field or has a mistyped schema
\* field fails with a validation error and leaves the primary document (and
\* the backups) untouched.
C3_InvalidAddRejected ==
    (last.op = "add" /\ KnownKind /\ ~SchemaValid(last.data, last.type)) =>
        /\ ~last.ok
        /\ last.err.prefix = "Failed to add"
        /\ last.err.cause.msg \in {"Missing required field", "Invalid type for"}
        /\ fileExists = last.beforeExists
        /\ file = last.before
        /\ backups = last.backupsBefore

C3_Witness ==
    /\ last.op = "add"
    /\ HasMistyped(last.data, last.type)
    /\ last.err.cause.msg = "Invalid type for"
    /\ DOMAIN file.departments # {}

----------------------------------------------------------------------------
(* C4 *)

\* the last call wrote a backup named ts holding the document as it was
WroteBackupAt(ts) ==
    /\ ts \in DOMAIN backups
    /\ backups = Put(last.backupsBefore, ts, last.before)

\* C4 as stated: the number of backup files equals the number of successful
\* add/update/delete calls; a successful call creates exactly one new backup
\* file and a failing call creates none.
C4_BackupsEqualSuccessfulCalls ==
    /\ Cardinality(DOMAIN backups) = okCalls
    /\ last.op \in Mutating =>
          IF last.ok
          THEN Cardinality(DOMAIN backups) = Cardinality(DOMAIN last.backupsBefore) + 1
          ELSE backups = last.backupsBefore

\* C4 amended: a successful add/update/delete, and also an add rejected for a
\* duplicate id, writes exactly one backup file holding the document as it was
\* before the call; any other failing call writes none.  A backup written in
\* the same millisecond as the previous one replaces that file, so the number
\* of backup files is the number of successful calls plus the number of
\* rejected duplicate adds, less the number of replaced files.
C4_BackupsPerWritingCall ==
    /\ Cardinality(DOMAIN backups) = okCalls + dupAdds - overwrites
    /\ last.op \in Mutating =>
          IF last.ok \/ (last.op = "add" /\ last.err.cause.msg = "already exists")
          THEN /\ WroteBackupAt(clock)
               /\ \A t \in DOMAIN last.backupsBefore : t <= clock
          ELSE backups = last.backupsBefore

C4_Witness ==
    /\ last.op = "add" /\ ~last.ok
    /\ last.err.cause.msg = "already exists"
    /\ last.data.id.s \in DOMAIN BeforeTable
    /\ okCalls = 1 /\ dupAdds = 1
    /\ Cardinality(DOMAIN backups) = 2

----------------------------------------------------------------------------
(* C5 *)

\* the last call was delete('department', id) on a stored department that a
\* stored professor references
ReferencedDelete ==
    /\ last.op = "delete" /\ last.type = "department"
    /\ last.beforeExists
    /\ last.id \in DOMAIN last.before.departments
    /\ \E p \in DOMAIN last.before.professors :
          Get(last.before.professors[p], "department") = Str(last.id)

\* C5: delete('department', id) while a stored professor has department = id
\* fails with the dependency error, and the department is still in the
\* document and returned by search.
C5_ReferencedDepartmentKept ==
    ReferencedDelete =>
        /\ ~last.ok
        /\ last.err = Wrap("Failed to delete", "department", HasProfessors)
        /\ file = last.before
        /\ last.id \in DOMAIN file.departments
        /\ LET r == SearchCall(Disk, "department", <<>>) IN
           r.ok /\ last.id \in DOMAIN r.found
                /\ r.found[last.id] = last.before.departments[last.id]

C5_Witness == ReferencedDelete /\ last.err.cause = HasProfessors

----------------------------------------------------------------------------
(* C6 *)

\* C6: no two stored records of the same kind have the same id field.
C6_IdFieldsUnique ==
    \A type \in Types :
        \A j, k \in DOMAIN file[Table(type)] :
            j # k => Get(file[Table(type)][j], "id") # Get(file[Table(type)][k], "id")

----------------------------------------------------------------------------
(* C7 *)

\* C7: every stored record has all required fields of its kind, and every
\* schema-typed field it has is of the schema's type.
C7_StoredRecordsSchemaValid ==
    \A type \in Types :
        \A k \in DOMAIN file[Table(type)] : SchemaValid(file[Table(type)][k], type)

----------------------------------------------------------------------------
(* C8 *)

\* C8: once initialize() has returned, the document and the backup directory
\* exist, so an add made afterwards does not fail for want of either.
C8_InitializeProvidesDocumentAndBackupDir ==
    initDone =>
        /\ fileExists /\ dirExists
        /\ (last.op = "add" /\ last.initBefore) =>
               last.err.cause.msg \notin {"ENOENT", "Failed to read data"}

----------------------------------------------------------------------------
(* C9 *)

\* C9: the backup file written by a successful add, update or delete holds
\* the document exactly as it was before the call changed it.
C9_BackupHoldsDocumentBefore ==
    (last.op \in Mutating /\ last.ok) =>
        /\ clock \in DOMAIN backups
        /\ backups[clock] = last.before
        /\ \A t \in DOMAIN backups \ {clock} :
              t \in DOMAIN last.backupsBefore /\ backups[t] = last.backupsBefore[t]

C9_Witness ==
    /\ last.op = "update" /\ last.ok
    /\ file # last.before
    /\ backups[clock] = last.before

----------------------------------------------------------------------------
(* C10 *)

\* a record matches one (field, value) pair, as the claim states it
PairMatches(item, key, value) ==
    IF TypeOf(value) = "string"
    THEN /\ key \in DOMAIN item
         /\ item[key].t = "string"
         /\ Includes(ToLowerCase(item[key].s), ToLowerCase(value.s))
    ELSE StrictEq(Get(item, key), value)

AllPairsMatch(item, criteria) ==
    \A i \in 1..Len(criteria) : PairMatches(item, criteria[i][1], criteria[i][2])

\* C10: search(K, criteria) succeeds and returns exactly the stored records of
\* kind K that match every pair of criteria, whatever the types of their fields.
C10_SearchReturnsMatches ==
    (last.op = "search" /\ KnownKind /\ last.beforeExists) =>
        /\ last.ok
        /\ DOMAIN last.found =
              {k \in DOMAIN BeforeTable : AllPairsMatch(BeforeTable[k], last.criteria)}
        /\ \A k \in DOMAIN last.found : last.found[k] = BeforeTable[k]

----------------------------------------------------------------------------
(* C11 *)

\* the tables of doc other than the one of type, and in that one the records
\* other than the one under key id
RestOf(doc, type, id) ==
    [t \in {Table(x) : x \in Types} |->
        IF t = Table(type) THEN Remove(doc[t], id) ELSE doc[t]]

\* the last call was a successful update of a stored record
StoredUpdate ==
    /\ last.op = "update" /\ KnownKind /\ last.ok
    /\ last.id \in DOMAIN BeforeTable

\* C11: a successful update(K, id, updates) stores and returns the shallow
\* merge of the existing record with updates (fields not named keep their
\* value, fields named take the new one), and changes no other record.
C11_UpdateStoresAndReturnsMerge ==
    StoredUpdate =>
        LET merged == Merge(BeforeTable[last.id], last.data) IN
        /\ last.ret = <<merged>>
        /\ last.id \in DOMAIN file[Table(last.type)]
        /\ file[Table(last.type)][last.id] = merged
        /\ RestOf(file, last.type, last.id) = RestOf(last.before, last.type, last.id)

----------------------------------------------------------------------------
(* C12 *)

\* C12: update(K, id, updates) with no record under key id fails with the
\* not-found error, leaves the document unchanged and creates no backup.
C12_UpdateUnknownIdNotFound ==
    (last.op = "update" /\ KnownKind /\ last.beforeExists
        /\ last.id \notin DOMAIN BeforeTable) =>
        /\ ~last.ok
        /\ last.err = Wrap("Failed to update", last.type, NotFound(last.type, last.id))
        /\ file = last.before
        /\ backups = last.backupsBefore

----------------------------------------------------------------------------
(* C13 *)

\* the last call was delete('department', id) on a stored department that no
\* stored professor references
UnreferencedDelete ==
    /\ last.op = "delete" /\ last.type = "department"
    /\ last.beforeExists
    /\ last.id \in DOMAIN last.before.departments
    /\ \A p \in DOMAIN last.before.professors :
          Get(last.before.professors[p], "department") # Str(last.id)

\* C13: delete('department', id) of a stored department that no stored
\* professor references succeeds; afterwards the department is absent from
\* the document and from search, and every other record is unchanged.
C13_UnreferencedDepartmentDeleted ==
    UnreferencedDelete =>
        /\ last.ok
        /\ last.id \notin DOMAIN file.departments
        /\ LET r == SearchCall(Disk, "department", <<>>) IN
           r.ok /\ last.id \notin DOMAIN r.found
        /\ RestOf(file, "department", last.id)
              = RestOf(last.before, "department", last.id)

C13_Witness ==
    /\ UnreferencedDelete /\ last.ok
    /\ DOMAIN file.departments # {}

----------------------------------------------------------------------------
(* C14 *)

\* C14: an initialize() call made after one has succeeded changes neither the
\* primary document nor the set of backup files.
C14_InitializeIdempotent ==
    (last.op = "initialize" /\ last.initBefore) =>
        /\ fileExists /\ last.beforeExists
        /\ file = last.before
        /\ backups = last.backupsBefore

C14_Witness ==
    /\ last.op = "initialize" /\ last.initBefore
    /\ DOMAIN file.departments # {}
    /\ DOMAIN backups # {}

----------------------------------------------------------------------------
(* C16 *)

ValidationMessages == {"Missing required field", "Invalid type for"}

\* the last call was rejected by one of the checks the claim names
AddRejectedAsDuplicate == last.op = "add" /\ last.err.cause.msg = "already exists"
DeleteRejected ==
    /\ last.op = "delete"
    /\ last.err.cause.msg \in {"not found", HasProfessors.msg}
UpdateRejected ==
    /\ last.op = "update"
    /\ last.err.cause.msg \in {"not found"} \cup ValidationMessages

\* C16 as stated: a rejected add or delete has already written its backup,
\* a rejected update has not.
C16_AddAndDeleteBackUpBeforeChecks ==
    /\ (AddRejectedAsDuplicate \/ DeleteRejected) => WroteBackupAt(clock)
    /\ UpdateRejected => backups = last.backupsBefore

\* C16 amended: update and delete create their backup only after their checks
\* (existence, then validation of the merge in update, the dependency check
\* in delete) have passed, and add creates its backup after validation but
\* before its duplicate-id check; so an add rejected for a duplicate id leaves
\* a new backup file, and a rejected update or delete leaves none.
C16_OnlyAddBacksUpBeforeItsCheck ==
    /\ AddRejectedAsDuplicate => WroteBackupAt(clock)
    /\ (last.op = "add" /\ last.err.cause.msg \in ValidationMessages) =>
          backups = last.backupsBefore
    /\ (UpdateRejected \/ DeleteRejected) => backups = last.backupsBefore

C16_Witness ==
    /\ last.op = "delete" /\ last.err.cause = HasProfessors
    /\ backups = last.backupsBefore
    /\ DOMAIN backups # {}

----------------------------------------------------------------------------
(* C17 *)

\* C17: every record is stored under the key equal to its own id field.
C17_KeyEqualsIdField ==
    \A type \in Types :
        \A k \in DOMAIN file[Table(type)] :
            Get(file[Table(type)][k], "id") = Str(k)

----------------------------------------------------------------------------
(* C18 *)

\* some professor of doc names department id, which doc does not store
Dangling(doc, id) ==
    /\ id \notin DOMAIN doc.departments
    /\ \E p \in DOMAIN doc.professors :
          Get(doc.professors[p], "department") = Str(id)

\* C18: add('professor', R) of a schema-valid R with a fresh id, and
\* update('professor', id, {department: d}) of a stored professor, succeed
\* whether or not the department named is stored; and a department that a
\* stored professor names cannot be deleted.
C18_ProfessorDepartmentNotChecked ==
    /\ (ValidAdd /\ last.type = "professor"
          /\ last.data.id.s \notin DOMAIN BeforeTable \cup PrototypeKeys) =>
          /\ last.ok
          /\ file.professors[last.data.id.s].department = last.data.department
    /\ (last.op = "update" /\ last.type = "professor" /\ last.beforeExists
          /\ last.id \in DOMAIN BeforeTable
          /\ "department" \in DOMAIN last.data
          /\ SchemaValid(Merge(BeforeTable[last.id], last.data), "professor")) =>
          /\ last.ok
          /\ file.professors[last.id].department = last.data.department
    /\ ReferencedDelete => (~last.ok /\ last.id \in DOMAIN file.departments)

\* a professor was stored while its department was not (the backup shows it),
\* the department was added later, and its deletion has just been refused
C18_Witness ==
    /\ ReferencedDelete /\ ~last.ok
    /\ \E t \in DOMAIN backups : Dangling(backups[t], last.id)

----------------------------------------------------------------------------
(* C19 *)

\* the rule the claim gives for a student record
StudentRule(data) ==
    /\ {"id", "name", "email", "enrollmentYear", "major"} \subseteq DOMAIN data
    /\ TypeOf(data.id) = "string"
    /\ TypeOf(data.name) = "string"
    /\ TypeOf(data.email) = "string"
    /\ TypeOf(data.enrollmentYear) = "number"
    /\ "course" \in DOMAIN data => TypeOf(data.course) = "string"

----------------------------------------------------------------------------
(* C20 *)

\* "Failed to <verb>", or "Search failed"
Prefix(op) ==
    CASE op = "add" -> "Failed to add"
      [] op = "update" -> "Failed to update"
      [] op = "delete" -> "Failed to delete"
      [] op = "search" -> "Search failed"

\* the messages of the errors raised inside the public operations
OriginalMessages ==
    ValidationMessages \cup
    {"Invalid type", "already exists", "not found", HasProfessors.msg,
     ReadFailed.msg, BackupWriteFailed.msg, NotAFunction.msg,
     CannotReadUndefined.msg, CannotConvertUndefined.msg}

\* C20: a failed add, update or delete throws "Failed to <verb> <kind>: "
\* followed by the original message, a failed search "Search failed: "
\* followed by the original message, whatever the cause.
C20_FailuresAreWrapped ==
    (last.op \in Mutating \cup {"search"}) =>
        IF last.ok THEN last.err = NoErr
        ELSE /\ last.err.prefix = Prefix(last.op)
             /\ last.err.type = (IF last.op = "search" THEN "" ELSE last.type)
             /\ last.err.cause.msg \in OriginalMessages
             /\ last.err.cause.msg = "already exists" =>
                   last.err.cause = AlreadyExists(last.type, last.data.id.s)
             /\ last.err.cause.msg = "not found" =>
                   last.err.cause = NotFound(last.type, last.id)
             /\ last.err.cause.msg = "Invalid type" =>
                   (last.type \notin Types /\ last.err.cause = InvalidType(last.type))
             /\ last.err.cause.msg \in ValidationMessages =>
                   last.err.cause.field # ""

C20_Witness ==
    /\ last.op = "update" /\ last.type = sCourse /\ ~last.ok
    /\ last.err = Wrap("Failed to update", sCourse, CannotReadUndefined)
    /\ DOMAIN file.departments # {}

----------------------------------------------------------------------------
(* C15 *)

\* what the call of c does when nothing runs between its steps
Atomic(c) ==
    CASE c.op = "add" -> AddCall(c.start, c.type, c.data, c.sameMs)
      [] c.op = "update" -> UpdateCall(c.start, c.type, c.id, c.data, c.sameMs)
      [] c.op = "delete" -> DeleteCall(c.start, c.type, c.id, c.sameMs)

\* c returned, and no other call was in flight while it ran
RanAlone(c) == c.pc = "done" /\ c.alone

\* c and e are successful adds of the same kind with different ids
TwoAdds(c, e) ==
    /\ c.pc = "done" /\ e.pc = "done"
    /\ c.op = "add" /\ e.op = "add"
    /\ c.ok /\ e.ok
    /\ c.type = e.type
    /\ c.data.id.s # e.data.id.s

\* e started on the store that c left when it returned
Follows(e, c) ==
    /\ e.start.fileExists = c.after.fileExists
    /\ e.start.file = c.after.file
    /\ e.start.backups = c.after.backups

\* the record added by c is in the document
Stored(c) ==
    /\ c.data.id.s \in DOMAIN file[Table(c.type)]
    /\ file[Table(c.type)][c.data.id.s] = StringifyRecord(c.data)

\* C15: calls run one after the other lose nothing: each leaves the document,
\* the backups and the result the whole call gives on the store it started
\* with, and of two successful adds of different ids, the second started
\* where the first returned, both are stored.  (The lost update of two
\* interleaved calls is the state of C15_Witness.)
C15_SerialCallsLoseNothing ==
    /\ \A p \in Procs :
          RanAlone(procs[p]) =>
             LET c == procs[p]
                 r == Atomic(c)
             IN  /\ c.ok = r.ok
                 /\ c.err = r.err
                 /\ c.ret = r.ret
                 /\ c.after = Snapshot(r.disk.fileExists, r.disk.file, r.disk.backups)
    /\ \A p, q \in Procs :
          (p # q /\ TwoAdds(procs[p], procs[q])
               /\ RanAlone(procs[p]) /\ RanAlone(procs[q])
               /\ Follows(procs[q], procs[p])) =>
             (Stored(procs[p]) /\ Stored(procs[q]))

\* two interleaved adds both returned successfully and only one is stored
C15_Witness ==
    \E p, q \in Procs :
       /\ p # q /\ TwoAdds(procs[p], procs[q])
       /\ ~procs[p].alone /\ ~procs[q].alone
       /\ procs[p].data.id.s \notin DOMAIN file[Table(procs[p].type)]
       /\ Stored(procs[q])

====
